---- MODULE Spec2Model ----
(***************************************************************************)
(* Model of canwarp.py: the coordinate converters cyl2sph / sph2cyl, the   *)
(* image remapper img_cyl2sph and the file driver file_cyl2sph.            *)
(*                                                                         *)
(* Language semantics.  The source is Python 2: it writes float(x) / d and *)
(* float(t) / t_max wherever both operands of "/" may be integers, and     *)
(* leaves img_in.shape[1] / 2 uncast, so "/" on two ints is the truncating *)
(* integer division of Python 2 (an interpreter with true division would   *)
(* make the centers of an odd dimension halves).  int() truncates toward   *)
(* zero.                                                                   *)
(*                                                                         *)
(* Numbers.  A Python float is carried as a record [m, e] that stands for  *)
(* (m / Scale) * Big^e, where 1/Big = math.cos(math.pi/2) = 6.1e-17 is the *)
(* residue that the rounding of math.pi leaves at the pole and             *)
(* Big = -math.tan(-math.pi/2) = 1.6e16.  e = 0 is an ordinary value in    *)
(* fixed point, e = 1 a value of the order of Big, e = -1 a value of the   *)
(* order of 1/Big.  The mantissa arithmetic is exact up to a few units of  *)
(* 1/Scale and the double the code holds lies within Ulp units of it.      *)
(* Where that decides an outcome, at the int() conversions of a sum next   *)
(* to an integer, the rounding is a nondeterministic choice among the      *)
(* neighbours; exact values (0 * x, t/t_max = 1/2) stay exact.             *)
(***************************************************************************)
EXTENDS Integers, Naturals, Sequences, FiniteSets, TLC

\* ---------------------------------------------------------------- bounds
MaxW == 4
MaxH == 4

\* ------------------------------------------------------ float arithmetic
\* one unit of the mantissa is 1e-6
Scale == 1000000
\* the half-word base of the long multiplication
Base == 1000
\* the distance, in units, within which a sum counts as next to an integer
Ulp == 8
\* the largest integer of the arithmetic
MaxInt == 2147483647

Abs(a) == IF a < 0 THEN -a ELSE a
Sgn(a) == IF a < 0 THEN -1 ELSE IF a > 0 THEN 1 ELSE 0

\* round(a / b) for a >= 0, b > 0
RDiv(a, b) == (a + b \div 2) \div b

\* mantissa of a * b : round(|a| * |b| / Scale) without leaving 32 bits
MulM(a, b) ==
  LET ah == Abs(a) \div Base
      al == Abs(a) % Base
      bh == Abs(b) \div Base
      bl == Abs(b) % Base
      mid == ah * bl + al * bh
  IN  Sgn(a) * Sgn(b) *
      (ah * bh + mid \div Base
         + ((mid % Base) * Base + al * bl + Scale \div 2) \div Scale)

\* the next n base-100 digits of r / b (0 <= r < b), rounded to nearest
RECURSIVE Frac(_, _, _)
Frac(r, b, n) ==
  IF n = 0 THEN (IF 2 * r >= b THEN 1 ELSE 0)
  ELSE ((r * 100) \div b) * 100^(n - 1) + Frac((r * 100) % b, b, n - 1)

\* round(a * Scale / b) for a >= 0, 0 < b < 2^31 / 100
DivN(a, b) == (a \div b) * Scale + Frac(a % b, b, 3)

\* mantissa of a / b : round(|a| * Scale / |b|), b # 0 ; a divisor too
\* large for the long division is first shortened by two digits
DivM(a, b) ==
  Sgn(a) * Sgn(b) *
    (IF Abs(b) >= 2 * 10^7
     THEN DivN(RDiv(Abs(a), 100), RDiv(Abs(b), 100))
     ELSE DivN(Abs(a), Abs(b)))

\* math.pi, rounded down to an even number of units so that math.pi / 2
\* and 0.5 * math.pi are exact halvings, as they are in binary
PI == 2 * 1570796
HalfPi == PI \div 2
QuarterPi == PI \div 4

F(m) == [m |-> m, e |-> 0]
FInt(n) == F(n * Scale)
One == F(Scale)

FNeg(a) == [m |-> -a.m, e |-> a.e]

FMul(a, b) ==
  LET m == MulM(a.m, b.m)
  IN  [m |-> m, e |-> IF m = 0 THEN 0 ELSE a.e + b.e]

\* b.m # 0 (the callers raise ZeroDivisionError first)
FDiv(a, b) ==
  LET m == DivM(a.m, b.m)
  IN  [m |-> m, e |-> IF m = 0 THEN 0 ELSE a.e - b.e]

\* a + b ; operands of different order: the smaller one is absorbed
FAdd(a, b) ==
  IF a.m = 0 THEN b
  ELSE IF b.m = 0 THEN a
  ELSE IF a.e = b.e THEN [m |-> a.m + b.m, e |-> IF a.m + b.m = 0 THEN 0 ELSE a.e]
  ELSE IF a.e > b.e THEN a ELSE b

FLess(a, b) ==
  IF a.e = b.e THEN a.m < b.m
  ELSE IF a.e > b.e THEN a.m < 0 ELSE b.m > 0

\* Taylor series on [0, pi/4], in Horner form
RECURSIVE SinH(_, _)
SinH(r2, k) ==
  IF k > 5 THEN Scale
  ELSE Scale - RDiv(MulM(r2, SinH(r2, k + 1)), (2 * k) * (2 * k + 1))
SinSeries(r) == MulM(r, SinH(MulM(r, r), 1))

RECURSIVE CosH(_, _)
CosH(r2, k) ==
  IF k > 5 THEN Scale
  ELSE Scale - RDiv(MulM(r2, CosH(r2, k + 1)), (2 * k - 1) * (2 * k))
CosSeries(r) == CosH(MulM(r, r), 1)

\* |angle| folded into [0, PI]
Fold(m) ==
  LET r == Abs(m) % (2 * PI)
  IN  IF r > PI THEN 2 * PI - r ELSE r

\* math.cos.  At the pole the argument is math.pi/2, which lies 6.1e-17
\* below pi/2, and the result is that residue: 1/Big
Cos(a) ==
  IF a.e < 0 THEN One
  ELSE LET r == Fold(a.m)
       IN  IF r = HalfPi THEN [m |-> Scale, e |-> -1]
           ELSE IF r <= QuarterPi THEN F(CosSeries(r))
           ELSE IF r < HalfPi THEN F(SinSeries(HalfPi - r))
           ELSE IF r < 3 * QuarterPi THEN F(-SinSeries(r - HalfPi))
           ELSE F(-CosSeries(PI - r))

\* math.sin
Sin(a) ==
  IF a.e < 0 THEN a
  ELSE LET r == Fold(a.m)
           s == IF r <= QuarterPi THEN SinSeries(r)
                ELSE IF r <= 3 * QuarterPi THEN CosSeries(Abs(HalfPi - r))
                ELSE SinSeries(PI - r)
       IN  F(Sgn(a.m) * (IF Abs(a.m) % (2 * PI) > PI THEN -s ELSE s))

\* math.tan ; at -math.pi/2 this is -Big
Tan(a) == FDiv(Sin(a), Cos(a))

\* arctangent series on [0, sqrt(2) - 1]
RECURSIVE AtanH(_, _)
AtanH(u2, k) ==
  IF k >= 8 THEN RDiv(Scale, 2 * k + 1)
  ELSE RDiv(Scale, 2 * k + 1) - MulM(u2, AtanH(u2, k + 1))
AtanSeries(u) == MulM(u, AtanH(MulM(u, u), 0))

\* arctangent of a mantissa in [0, Scale]
AtanU(u) ==
  IF u > 414214 THEN QuarterPi - AtanSeries(DivM(Scale - u, Scale + u))
  ELSE AtanSeries(u)

\* math.atan
Atan(v) ==
  IF v.e < 0 THEN v
  ELSE IF v.e > 0 THEN F(Sgn(v.m) * HalfPi)
  ELSE IF Abs(v.m) > Scale
       THEN F(Sgn(v.m) * (HalfPi - AtanU(DivM(Scale, Abs(v.m)))))
       ELSE F(Sgn(v.m) * AtanU(Abs(v.m)))

\* ------------------------------------------------------------ canwarp.py
\* cyl2sph(x, y, d)
cyl2sph(x, y, d) ==
  LET theta == FDiv(x, d)
      phi == Atan(FDiv(FDiv(y, Cos(theta)), d))
  IN  <<theta, phi>>

\* sph2cyl without the cos(theta) factor of y
sph2cyl_nocos(theta, phi, d) ==
  <<FMul(d, theta), FMul(d, Tan(phi))>>

\* sph2cyl(theta, phi, d)
sph2cyl(theta, phi, d) ==
  <<FMul(d, theta), FMul(FMul(d, Tan(phi)), Cos(theta))>>

\* a numpy image: shape = (rows, columns, channels), px[<<row, column>>]
Black == <<0, 0, 0>>
White == <<255, 255, 255>>
Shape0(img) == img.shape[1]
Shape1(img) == img.shape[2]
Cells(rows, cols) == (0 .. rows - 1) \X (0 .. cols - 1)

\* the centers rounded up instead of truncated
XCenter_up(img) == (Shape1(img) + 1) \div 2

\* x_center = img_in.shape[1] / 2 ; y_center = img_in.shape[0] / 2
XCenter(img) == Shape1(img) \div 2
YCenter(img) == Shape0(img) \div 2

\* the diameter without the division by math.pi
Diameter_nopi(img, cov) == FDiv(FInt(Shape1(img)), cov)

\* d = img_in.shape[1] / coverage / math.pi   (coverage # 0)
Diameter(img, cov) == FDiv(FDiv(FInt(Shape1(img)), cov), F(PI))

theta_max == F(HalfPi)
theta_min == FNeg(theta_max)
phi_max == F(HalfPi)
phi_min == FNeg(phi_max)
\* the output given as many rows as the input
PMax_rows(img) == Shape0(img)
TMax(img) == Shape1(img)
PMax(img) == Shape1(img)

\* np.zeros((p_max, t_max, 3), dtype='uint8')
Zeros(rows, cols) ==
  [shape |-> <<rows, cols, 3>>, px |-> [c \in Cells(rows, cols) |-> Black]]

\* theta scaled by theta_max instead of theta_max - theta_min
Theta_halfspan(t, tmax) ==
  FAdd(FMul(FDiv(FInt(t), FInt(tmax)), theta_max), theta_min)

\* theta taken at the right edge of the column
Theta_next(t, tmax) ==
  FAdd(FMul(FDiv(FInt(t + 1), FInt(tmax)), FAdd(theta_max, FNeg(theta_min))),
       theta_min)

\* theta = float(t) / t_max * (theta_max - theta_min) + theta_min
Theta(t, tmax) ==
  FAdd(FMul(FDiv(FInt(t), FInt(tmax)), FAdd(theta_max, FNeg(theta_min))),
       theta_min)

\* phi = float(p) / p_max * (phi_max - phi_min) + phi_min
Phi(p, pmax) ==
  FAdd(FMul(FDiv(FInt(p), FInt(pmax)), FAdd(phi_max, FNeg(phi_min))),
       phi_min)

\* The rounding of the sum cyl[i] + center, as far as int() can see it.
\* An exact zero stays exact and a value of the order of Big absorbs the
\* center.  A residue of the order of 1/Big is absorbed by the center (0)
\* or moves the sum to the neighbouring double on its side (1).  An
\* ordinary sum within Ulp units of an integer may be the sum itself (0) or
\* fall below (1) or above (2) it.
NearInteger(m) == m % Scale <= Ulp \/ m % Scale >= Scale - Ulp
Roundings(c, n) ==
  IF c.m = 0 \/ c.e > 0 THEN {0}
  ELSE IF c.e < 0 THEN {0, 1}
  ELSE IF NearInteger(c.m + n * Scale) THEN {0, 1, 2} ELSE {0}

\* cyl[i] + center, rounded as r says
Shift(c, n, r) ==
  IF c.e > 0 THEN c
  ELSE IF c.m = 0 THEN FInt(n)
  ELSE IF c.e < 0 THEN F(n * Scale + r * Sgn(c.m))
  ELSE F(c.m + n * Scale + (IF r = 1 THEN -Ulp ELSE IF r = 2 THEN Ulp ELSE 0))

\* floor instead of truncation toward zero
IntCast_floor(v) ==
  IF v.e > 0 THEN Sgn(v.m) * MaxInt
  ELSE IF v.e < 0 THEN 0
  ELSE v.m \div Scale

\* int(v): truncation toward zero.  The integer of a value of the order of
\* Big (1e16) is carried as +/- MaxInt: far outside every index range
IntCast(v) ==
  IF v.e > 0 THEN Sgn(v.m) * MaxInt
  ELSE IF v.e < 0 THEN 0
  ELSE Sgn(v.m) * (Abs(v.m) \div Scale)

\* a bounds check that leaves out index 0
InRange_skip0(i, n) == i \in 1 .. (n - 1)

\* i in range(n)
InRange(i, n) == i \in 0 .. (n - 1)

\* an inner loop that stops one row early
Advance_skip(tt, pp, pmax) ==
  IF pp + 1 < pmax - 1 THEN <<tt, pp + 1>> ELSE <<tt + 1, 0>>

\* for t in range(t_max): for p in range(p_max): the cell after (t, p)
Advance(tt, pp, pmax) ==
  IF pp + 1 < pmax THEN <<tt, pp + 1>> ELSE <<tt + 1, 0>>

\* a fallback that lets coverage = 0 through
Fallback_strict(cov) ==
  IF cov.m < 0 \/ cov.m > Scale THEN F((9 * Scale) \div 10) ELSE cov

\* file_cyl2sph: if coverage <= 0 or coverage > 1: coverage = 0.9
DefaultCoverage == F((9 * Scale) \div 10)
Fallback(cov) ==
  IF cov.m <= 0 \/ cov.m > Scale THEN DefaultCoverage ELSE cov

\* ---------------------------------------------------------------- inputs
RampPixel(y, x) == <<1 + x, 1 + y, 255>>
Image(h, w, kind) ==
  [shape |-> <<h, w, 3>>,
   px |-> [c \in Cells(h, w) |->
             IF kind = "white" THEN White ELSE RampPixel(c[1], c[2])]]
Images ==
  {Image(h, w, kind) : h \in 1 .. MaxH, w \in 1 .. MaxW,
                       kind \in {"white", "ramp"}}
CoverageArgs ==
  {F(-Scale), F(0), F(Scale \div 2), F((9 * Scale) \div 10), F(Scale),
   F((3 * Scale) \div 2)}
NoImage == [shape |-> <<0, 0, 3>>, px |-> <<>>]
\* arguments of the converters: angles inside (-pi/2, pi/2), d > 0
Angles ==
  {F(-1500000), F(-1000000), F(-400000), F(0), F(300000), F(QuarterPi),
   F(1200000), F(1500000)}
Diameters == {F(Scale \div 2), F(Scale), F((5 * Scale) \div 2)}

\* ----------------------------------------------------------------- state
VARIABLES
  entry,      \* the operation the caller invokes
  image,      \* the caller's image (the content of file_in)
  cov_arg,    \* the coverage argument of the call
  theta0, phi0, d0,   \* the arguments of a converter call
  pc,         \* position in the code
  img_in, coverage,   \* parameters of img_cyl2sph
  x_center, y_center, d, t_max, p_max, img_out,   \* locals of img_cyl2sph
  t, p, theta, phi, cyl, shifted, x, y,           \* locals of the loop body
  rx,         \* rounding of cyl[0] + x_center in the current column
  iters,      \* number of loop iterations executed
  log,        \* per output cell: iterations, writes, the indices computed
  result,     \* return value of img_cyl2sph
  file_out,   \* the image written by cv2.imwrite
  sph         \* return value of cyl2sph

vars ==
  <<entry, image, cov_arg, theta0, phi0, d0, pc, img_in, coverage, x_center,
    y_center, d, t_max, p_max, img_out, t, p, theta, phi, cyl, shifted, x, y,
    rx, iters, log, result, file_out, sph>>

args == <<entry, image, cov_arg, theta0, phi0, d0>>
setup == <<x_center, y_center, d, t_max, p_max, img_out>>
body == <<t, p, theta, phi, cyl, shifted, x, y, rx, iters, log>>

Zero == F(0)
EmptyLog == [c \in {} |-> 0]

Init ==
  /\ \/ /\ entry \in {"file_cyl2sph", "img_cyl2sph"}
        /\ image \in Images
        /\ cov_arg \in CoverageArgs
        /\ theta0 = Zero /\ phi0 = Zero /\ d0 = One
     \/ /\ entry = "convert"
        /\ image = NoImage
        /\ cov_arg = DefaultCoverage
        /\ theta0 \in Angles /\ phi0 \in Angles /\ d0 \in Diameters
  /\ pc = "start"
  /\ img_in = NoImage /\ coverage = Zero
  /\ x_center = 0 /\ y_center = 0 /\ d = Zero /\ t_max = 0 /\ p_max = 0
  /\ img_out = NoImage
  /\ t = 0 /\ p = 0 /\ theta = Zero /\ phi = Zero
  /\ cyl = <<Zero, Zero>> /\ shifted = <<Zero, Zero>> /\ x = 0 /\ y = 0
  /\ rx = 0 /\ iters = 0 /\ log = EmptyLog
  /\ result = NoImage /\ file_out = NoImage /\ sph = <<Zero, Zero>>

\* file_cyl2sph, lines 82-85: the fallback, cv2.imread, the call
file_cyl2sph ==
  /\ pc = "start" /\ entry = "file_cyl2sph"
  /\ coverage' = Fallback(cov_arg)
  /\ img_in' = image
  /\ pc' = "img_cyl2sph"
  /\ UNCHANGED <<args, setup, body, result, file_out, sph>>

\* a caller invokes img_cyl2sph(img_in, coverage) directly
call_img_cyl2sph ==
  /\ pc = "start" /\ entry = "img_cyl2sph"
  /\ coverage' = cov_arg
  /\ img_in' = image
  /\ pc' = "img_cyl2sph"
  /\ UNCHANGED <<args, setup, body, result, file_out, sph>>

\* img_cyl2sph, lines 56-67.  Line 58 raises ZeroDivisionError for
\* coverage = 0, after the centers are set
img_cyl2sph_setup ==
  /\ pc = "img_cyl2sph"
  /\ x_center' = XCenter(img_in)
  /\ y_center' = YCenter(img_in)
  /\ IF coverage.m = 0
     THEN /\ pc' = "ZeroDivisionError"
          /\ UNCHANGED <<d, t_max, p_max, img_out>>
     ELSE /\ d' = Diameter(img_in, coverage)
          /\ t_max' = TMax(img_in)
          /\ p_max' = PMax(img_in)
          /\ img_out' = Zeros(PMax(img_in), TMax(img_in))
          /\ pc' = "for"
  /\ UNCHANGED <<args, img_in, coverage, body, result, file_out, sph>>

\* what one iteration does to the log entry of its cell
Logged(c, ix, iy, hit) ==
  LET old == IF c \in DOMAIN log THEN log[c]
             ELSE [visits |-> 0, writes |-> 0, x |-> 0, y |-> 0]
      new == [visits |-> old.visits + 1,
              writes |-> old.writes + (IF hit THEN 1 ELSE 0),
              x |-> ix, y |-> iy]
  IN  [k \in DOMAIN log \cup {c} |-> IF k = c THEN new ELSE log[k]]

\* the cell of the next iteration: the first one when the loops are
\* entered ("for"), else the one after (t, p)
NextCell == IF pc = "for" THEN <<0, 0>> ELSE Advance(t, p, p_max)
MoreCells == NextCell[1] < t_max /\ NextCell[2] < p_max

\* img_cyl2sph, lines 69-77: the for headers take the next cell (p, t) and
\* the body runs for it.  cyl[0] depends on t alone, so the code adds the
\* same two doubles in every row of a column and the sum is rounded the
\* same way (rx)
img_cyl2sph_loop ==
  /\ pc \in {"for", "loop"} /\ MoreCells
  /\ t' = NextCell[1]
  /\ p' = NextCell[2]
  /\ theta' = Theta(t', t_max)
  /\ phi' = Phi(p', p_max)
  /\ cyl' = sph2cyl(theta', phi', d)
  /\ rx' \in (IF p' = 0 THEN Roundings(cyl'[1], x_center) ELSE {rx})
  /\ \E ry \in Roundings(cyl'[2], y_center) :
       shifted' = <<Shift(cyl'[1], x_center, rx'), Shift(cyl'[2], y_center, ry)>>
  /\ x' = IntCast(shifted'[1])
  /\ y' = IntCast(shifted'[2])
  /\ LET hit == InRange(x', Shape1(img_in)) /\ InRange(y', Shape0(img_in))
     IN  /\ img_out' =
              IF hit
              THEN [img_out EXCEPT !.px[<<p', t'>>] = img_in.px[<<y', x'>>]]
              ELSE img_out
         /\ log' = Logged(<<p', t'>>, x', y', hit)
  /\ iters' = iters + 1
  /\ pc' = "loop"
  /\ UNCHANGED <<args, img_in, coverage, x_center, y_center, d, t_max,
                 p_max, result, file_out, sph>>

\* img_cyl2sph, line 79: the loops are exhausted, return img_out
img_cyl2sph_return ==
  /\ pc \in {"for", "loop"} /\ ~MoreCells
  /\ result' = img_out
  /\ pc' = IF entry = "file_cyl2sph" THEN "imwrite" ELSE "done"
  /\ UNCHANGED <<args, img_in, coverage, setup, body, file_out, sph>>

\* file_cyl2sph, line 86: cv2.imwrite(file_out, img2)
file_cyl2sph_write ==
  /\ pc = "imwrite"
  /\ file_out' = result
  /\ pc' = "done"
  /\ UNCHANGED <<args, img_in, coverage, setup, body, result, sph>>

\* a caller invokes sph2cyl(theta0, phi0, d0)
call_sph2cyl ==
  /\ pc = "start" /\ entry = "convert"
  /\ cyl' = sph2cyl(theta0, phi0, d0)
  /\ pc' = "sph2cyl"
  /\ UNCHANGED <<args, img_in, coverage, setup, t, p, theta, phi, shifted, x,
                 y, rx, iters, log, result, file_out, sph>>

\* ... and feeds the result to cyl2sph with the same d
call_cyl2sph ==
  /\ pc = "sph2cyl"
  /\ sph' = cyl2sph(cyl[1], cyl[2], d0)
  /\ pc' = "done"
  /\ UNCHANGED <<args, img_in, coverage, setup, body, result, file_out>>

Next ==
  \/ file_cyl2sph
  \/ call_img_cyl2sph
  \/ img_cyl2sph_setup
  \/ img_cyl2sph_loop
  \/ img_cyl2sph_return
  \/ file_cyl2sph_write
  \/ call_sph2cyl
  \/ call_cyl2sph

Spec == Init /\ [][Next]_vars

TypeOK ==
  /\ pc \in {"start", "img_cyl2sph", "ZeroDivisionError", "for", "loop", "imwrite",
             "sph2cyl", "done"}
  /\ x_center \in Nat /\ y_center \in Nat
  /\ t \in Nat /\ p \in Nat /\ iters \in Nat

\* ---------------------------------------------------------------- claims
Width == image.shape[2]
Height == image.shape[1]
Remapping == entry \in {"file_cyl2sph", "img_cyl2sph"}
AfterSetup == Remapping /\ pc \in {"for", "loop", "imwrite", "done"}
InBody == Remapping /\ pc = "loop"
Returned == Remapping /\ pc \in {"imwrite", "done"}
ValidCoverage(c) == c.e = 0 /\ 0 < c.m /\ c.m <= Scale
PointNine == F(900000)
Tolerance == 4 * Ulp
Pixels(img) == {img.px[c] : c \in DOMAIN img.px}
SourceInside(c) ==
  /\ 0 <= log[c].x /\ log[c].x < Width
  /\ 0 <= log[c].y /\ log[c].y < Height

C2_CopyOrBlack ==
  AfterSetup =>
    /\ \A c \in Cells(Width, Width) :
         /\ c \in DOMAIN img_out.px
         /\ IF c \in DOMAIN log /\ SourceInside(c)
            THEN img_out.px[c] = image.px[<<log[c].y, log[c].x>>]
            ELSE img_out.px[c] = Black
         /\ img_out.px[c] \in Pixels(image) \cup {Black}
    /\ Returned => result = img_out

C2_Witness ==
  /\ pc = "done" /\ Remapping /\ Width >= 2
  /\ \E c \in DOMAIN log : SourceInside(c) /\ result.px[c] # Black
                             /\ result.px[c] # White
  /\ \E c \in DOMAIN log : ~SourceInside(c) /\ result.px[c] = Black

\* C3 (as stated): for every width, height and coverage in (0, 1], the cell
\* (p, t) = (W/2, W/2) truncated gets the indices (floor(W/2), floor(H/2)).
C3_CenterAnyWidth ==
  (Remapping /\ ValidCoverage(coverage)
     /\ <<Width \div 2, Width \div 2>> \in DOMAIN log) =>
       /\ log[<<Width \div 2, Width \div 2>>].x = Width \div 2
       /\ log[<<Width \div 2, Width \div 2>>].y = Height \div 2

\* C3 (amended): for every even width, any height and coverage in (0, 1],
\* the cell (W/2, W/2) gets the indices (W/2, floor(H/2)).  For an odd
\* width W >= 3 the column index of that cell is left of floor(W/2).
C3_CenterEvenWidth ==
  (Remapping /\ ValidCoverage(coverage)
     /\ <<Width \div 2, Width \div 2>> \in DOMAIN log) =>
       /\ Width % 2 = 0 =>
            /\ log[<<Width \div 2, Width \div 2>>].x = Width \div 2
            /\ log[<<Width \div 2, Width \div 2>>].y = Height \div 2
       /\ (Width % 2 = 1 /\ Width >= 3) =>
            log[<<Width \div 2, Width \div 2>>].x < Width \div 2

C3_Witness ==
  /\ Remapping /\ pc = "done" /\ ValidCoverage(coverage)
  /\ Width = 4 /\ Height = 3
  /\ log[<<2, 2>>].x = 2 /\ log[<<2, 2>>].y = 1

Scenario4x4 ==
  Remapping /\ image = Image(4, 4, "white") /\ coverage = One

\* C5 (as stated): 4x4 white input, coverage 1.0: the cell (2, 2) is white
\* and the corner cell (0, 0) gets indices outside the input and is black.
C5_CornerBlack ==
  (Scenario4x4 /\ Returned) =>
     /\ result.px[<<2, 2>>] = White
     /\ ~SourceInside(<<0, 0>>)
     /\ result.px[<<0, 0>>] = Black

\* C5 (amended): 4x4 white input, coverage 1.0: the cell (2, 2) is white.
\* At the corner cell (0, 0) tan(phi) * cos(theta) evaluates to -1, so
\* y = -d; the indices are (0, 0), inside the input, and the cell is white.
C5_CornerWhite ==
  (Scenario4x4 /\ Returned) =>
     /\ result.px[<<2, 2>>] = White
     /\ log[<<0, 0>>].x = 0 /\ log[<<0, 0>>].y = 0
     /\ result.px[<<0, 0>>] = White

C5_Witness ==
  Scenario4x4 /\ pc = "done" /\ entry = "img_cyl2sph"
    /\ result.px[<<0, 0>>] = White

\* C6: the output has exactly W rows, W columns and 3 channels whatever
\* the height, and is all zeros when the loops are entered.
C6_OutputShape ==
  AfterSetup =>
    /\ img_out.shape = <<Width, Width, 3>>
    /\ DOMAIN img_out.px = Cells(Width, Width)
    /\ \A c \in DOMAIN img_out.px : Len(img_out.px[c]) = 3
    /\ pc = "for" => \A c \in DOMAIN img_out.px : img_out.px[c] = <<0, 0, 0>>
    /\ Returned => /\ result.shape = <<Width, Width, 3>>
                   /\ DOMAIN result.px = Cells(Width, Width)

C6_Witness ==
  Remapping /\ pc = "done" /\ Height > Width /\ Width >= 2
    /\ result.shape = <<Width, Width, 3>>

\* C7: the centers are the integers floor(W/2) and floor(H/2).
C7_TruncatingCenters ==
  (Remapping /\ pc \notin {"start", "img_cyl2sph"}) =>
     /\ x_center \in Nat /\ 2 * x_center <= Width /\ Width < 2 * x_center + 2
     /\ y_center \in Nat /\ 2 * y_center <= Height /\ Height < 2 * y_center + 2

C7_Witness ==
  Remapping /\ pc = "done" /\ Width = 3 /\ Height = 3
    /\ x_center = 1 /\ y_center = 1

\* the integer i is the floor of the double v
IsFloor(i, v) ==
  IF v.e > 0 THEN Abs(i) = MaxInt
  ELSE i * Scale <= v.m /\ v.m < (i + 1) * Scale

\* the integer i is the double v cut toward zero
IsTrunc(i, v) ==
  IF v.e > 0 THEN i = Sgn(v.m) * MaxInt
  ELSE /\ Abs(i) * Scale <= Abs(v.m) /\ Abs(v.m) < (Abs(i) + 1) * Scale
       /\ i * Sgn(v.m) >= 0

\* the integer part of the double v does not hang on its last bits
Certain(v) == v.e > 0 \/ ~NearInteger(v.m)

\* C8 (as stated), for the cells whose shifted coordinates are not within
\* rounding error of an integer: the indices are the floors of the shifted
\* coordinates, so a negative shifted coordinate gives a negative index and
\* the cell stays black.
C8_FloorIndices ==
  InBody =>
    /\ Certain(shifted[1]) =>
          /\ IsFloor(x, shifted[1])
          /\ shifted[1].m < 0 => (x < 0 /\ img_out.px[<<p, t>>] = Black)
    /\ Certain(shifted[2]) =>
          /\ IsFloor(y, shifted[2])
          /\ shifted[2].m < 0 => (y < 0 /\ img_out.px[<<p, t>>] = Black)

\* C8 (amended): the indices are the shifted coordinates cut toward zero.
\* A shifted coordinate <= -1 gives a negative index, fails the bounds
\* check and leaves the cell black; one inside (-1, 0) gives index 0,
\* which the bounds check accepts.
C8_TruncIndices ==
  InBody =>
    /\ IsTrunc(x, shifted[1]) /\ IsTrunc(y, shifted[2])
    /\ log[<<p, t>>].x = x /\ log[<<p, t>>].y = y
    /\ (shifted[1].m <= -Scale \/ shifted[2].m <= -Scale) =>
          /\ x < 0 \/ y < 0
          /\ img_out.px[<<p, t>>] = Black
    /\ (shifted[1].e = 0 /\ -Scale < shifted[1].m /\ shifted[1].m < 0) => x = 0
    /\ (shifted[2].e = 0 /\ -Scale < shifted[2].m /\ shifted[2].m < 0) => y = 0
    /\ (x \in 0 .. Width - 1 /\ y \in 0 .. Height - 1) =>
          img_out.px[<<p, t>>] = image.px[<<y, x>>]

C8_Witness ==
  /\ InBody /\ image = Image(3, 3, "ramp")
  /\ shifted[1].e = 0 /\ -Scale < shifted[1].m /\ shifted[1].m < 0
  /\ x = 0 /\ y \in 0 .. 2
  /\ img_out.px[<<p, t>>] = image.px[<<y, 0>>]

\* C9 (as stated): the angles of every cell lie strictly inside
\* (-pi/2, pi/2).
C9_OpenInterval ==
  InBody =>
    /\ FLess(theta_min, theta) /\ FLess(theta, theta_max)
    /\ FLess(phi_min, phi) /\ FLess(phi, phi_max)

\* C9 (amended): the angles of every cell lie in the half-open interval
\* [-pi/2, pi/2): pi/2 is never reached, and theta = -pi/2 exactly in the
\* cells of column t = 0, phi = -pi/2 exactly in the cells of row p = 0.
C9_HalfOpenInterval ==
  InBody =>
    /\ t \in 0 .. Width - 1 /\ p \in 0 .. Width - 1
    /\ ~FLess(theta, theta_min) /\ FLess(theta, theta_max)
    /\ ~FLess(phi, phi_min) /\ FLess(phi, phi_max)
    /\ (theta = theta_min) = (t = 0)
    /\ (phi = phi_min) = (p = 0)

C9_Witness ==
  InBody /\ Width = 4 /\ t = 3 /\ p = 0
    /\ phi = F(-HalfPi) /\ theta.m > 0 /\ theta.m < HalfPi

\* the state part of C10
C10_EachCellOnce ==
  /\ (Remapping /\ pc # "start") => img_in = image
  /\ AfterSetup =>
       /\ Cardinality(DOMAIN log) = iters
       /\ DOMAIN log \subseteq Cells(Width, Width)
       /\ \A c \in DOMAIN log : log[c].visits = 1 /\ log[c].writes <= 1
       /\ iters <= Width * Width
       /\ (pc \in {"for", "loop"} /\ iters < Width * Width) => MoreCells
  /\ Returned =>
       /\ iters = Width * Width
       /\ DOMAIN log = Cells(Width, Width)

\* the step part of C10: an iteration is counted, changes no output
\* location but the one of its own cell, and no step changes the input
C10_OwnCellOnly ==
  /\ pc' = "loop" =>
        /\ iters' = iters + 1
        /\ <<p', t'>> \notin DOMAIN log
        /\ \A c \in DOMAIN img_out.px :
              c # <<p', t'>> => img_out'.px[c] = img_out.px[c]
  /\ (pc \in {"for", "loop", "imwrite"} /\ pc' # "loop") =>
        iters' = iters /\ img_out' = img_out
  /\ pc # "start" => img_in' = img_in
  /\ image' = image

\* C10: for coverage in (0, 1] the double loop runs exactly W * W
\* iterations, one per output cell, before it returns: every iteration is
\* for a cell not processed before, the loop goes on while fewer than W * W
\* cells are done and returns only when all are; an iteration writes at
\* most the output location of its own cell; the input image is never
\* written.
C10_LoopCompletion ==
  /\ []((Remapping /\ ValidCoverage(cov_arg)) => C10_EachCellOnce)
  /\ [][(Remapping /\ ValidCoverage(cov_arg)) => C10_OwnCellOnly]_vars

C10_Witness ==
  /\ Remapping /\ ValidCoverage(cov_arg) /\ pc = "done"
  /\ Width = 3 /\ iters = 9
  /\ \E c \in DOMAIN log : log[c].writes = 1
  /\ \E c \in DOMAIN log : log[c].writes = 0
====
